---- MODULE Spec2Model ----
(***************************************************************************)
(* Client-side state reconciliation of the todo-chronicle front end.       *)
(*                                                                         *)
(* The components are event handlers over shared fields; an HTTP request   *)
(* is a message in flight and its subscriber callback is a step of its     *)
(* own.  Every handler records its invocation in lastCall (its name, its   *)
(* argument and the storyLoading values it emitted), so that the contract  *)
(* of a handler is an action property over the step the handler takes.     *)
(*                                                                         *)
(* The state is checked in three slices, each of which runs the handlers   *)
(* that read or write the fields its properties are about and leaves the   *)
(* other fields at their initial values:                                   *)
(*   Spec           TaskListComponent: modal, form, saveTask and the       *)
(*                  create / update requests (task-list.component.ts, the  *)
(*                  class that starts at line 577)                         *)
(*   ExperienceSpec TaskListComponent.updateExperience, toggleTask and     *)
(*                  HomeComponent.onStoryLoading                           *)
(*   StorySpec      StoryComponent (src/unnamed/part_002): season          *)
(*                  selection and the story-image load with its retries    *)
(* Payload fields no handler branches on (due_date, category, created_at,  *)
(* the user record) are left out.                                          *)
(***************************************************************************)
EXTENDS Integers, Sequences, FiniteSets, TLC

\* ---------------------------------------------------------------- bounds
MaxTasks   == 3     \* longest task list a create may extend
MaxTime    == 1     \* last value of the millisecond clock
MaxPending == 2     \* task requests in flight at once
MaxIds     == 2     \* task ids the server issues in one run
MaxToggles == 1     \* status requests in flight at once
MaxExp     == 2     \* experience requests sent in one run
MaxLoads   == 2     \* image loads started in one run
MaxStoryReqs == 2   \* story-list requests sent in one run
MaxSelections == 2  \* season selections the user makes in one run
MaxShown   == 3     \* longest task list displayTasks is applied to
MaxCreated == 2     \* last created_at value of a displayed task
MaxDeletes == 2     \* delete requests in flight at once

\* ------------------------------------------------------ program constants
PENDING   == 0
COMPLETED == 1
KI        == 0
SHO       == 1
KAN       == 4
MAX_LOADING_STEPS == 20

Titles == {"a"}

VARIABLES
  tasks,                 \* TaskListComponent.tasks
  isEnabled,             \* @Input isEnabled of the component the slice runs
  showModal,
  editingTask,           \* <<>> for null, <<task>> otherwise
  taskForm,              \* [title]
  isSavingTask,
  showAllTasks,
  taskToDelete,          \* <<>> for null, else <<id of the task>>
  showDeleteConfirm,
  deleteReqs,            \* DELETE /users/me/tasks/:id in flight (the id)
  isUpdatingExperience,
  dashboard,             \* DashboardService.dashboardData: <<>> for null, else <<[tasks]>>
  seasons,               \* dashboardData.seasons, the seasons input of StoryComponent
  isStoryLoading,        \* HomeComponent.isStoryLoading
  now,                   \* Date.now()
  nextId,                \* ids issued by the server so far
  createReqs,            \* POST /users/me/tasks in flight
  updateReqs,            \* PUT /users/me/tasks/:id in flight
  toggleReqs,            \* PUT /users/me/tasks/:id/status in flight
  expReqs,               \* number of PUT /users/me/experience in flight
  expCount,              \* experience requests sent so far
  selectedSeasonId,      \* StoryComponent @Input, <<>> for undefined
  selectedStorySeasonId, \* StoryComponent @Input, <<>> for undefined
  selectedSeason,        \* StoryComponent.selectedSeason, <<>> for null, else <<id>>
  currentView,           \* StoryComponent._currentView
  imageRetryCount,
  imageRetryTimeout,     \* <<>> for null, <<k>> for the handle of load k's last timer
  loads,                 \* image loads: season, state, retries made
  storyReqs,             \* GET /seasons/:id/stories in flight (index of the season)
  storiesGen,            \* per season, how often season.stories was replaced
  selections,            \* season selections made so far
  lastCall               \* the last handler that ran

modalVars == <<showModal, editingTask, taskForm, isSavingTask>>
saveNet   == <<createReqs, updateReqs>>
expVars   == <<isUpdatingExperience, isStoryLoading, expReqs, expCount>>
dashVars  == <<dashboard>>
deleteVars == <<taskToDelete, showDeleteConfirm, deleteReqs>>
Dash(ts)  == <<[tasks |-> ts]>>
storyVars == <<selectedSeasonId, selectedStorySeasonId, selectedSeason, currentView,
               imageRetryCount, imageRetryTimeout, loads, storyReqs, storiesGen,
               selections>>
vars == <<tasks, isEnabled, modalVars, saveNet, toggleReqs, expVars, dashVars,
          seasons, now, nextId, storyVars, showAllTasks, deleteVars, lastCall>>

\* ------------------------------------------------------------- helpers
NoDate == <<>>
Null   == <<>>

TempId(t) == <<"temp", t>>
ServerId(n) == <<"srv", n>>
SeasonId(n) == <<"season", n>>
StoryId(n)  == <<"story", n>>

Task(id, title, status, exp) ==
  [id |-> id, title |-> title, status |-> status, experienced_at |-> exp]
Season(id, phase, chapter, stories) ==
  [id |-> id, current_phase |-> phase, current_chapter |-> chapter, stories |-> stories]
Story(id, phase, url) == [id |-> id, phase |-> phase, imageUrl |-> url]

\* Array.prototype.findIndex on the id; 0 stands for -1 (sequences are 1-based)
FindIndex(seq, id) ==
  IF \E i \in DOMAIN seq : seq[i].id = id
  THEN CHOOSE i \in DOMAIN seq : seq[i].id = id /\ \A j \in 1..(i-1) : seq[j].id # id
  ELSE 0

\* Array.prototype.filter(t => t.id !== id)
RECURSIVE FilterOutId(_, _)
FilterOutId(seq, id) ==
  IF seq = <<>> THEN <<>>
  ELSE IF Head(seq).id # id THEN <<Head(seq)>> \o FilterOutId(Tail(seq), id)
       ELSE FilterOutId(Tail(seq), id)

\* a request leaves the in-flight list when its callback runs
Remove(seq, i) == SubSeq(seq, 1, i - 1) \o SubSeq(seq, i + 1, Len(seq))

Call(op, arg, emitted) == [op |-> op, arg |-> arg, storyLoading |-> emitted]

\* The task lists the dashboard can deliver to the component (ids are the server's)
InitTaskLists ==
  { <<>>,
    <<Task(<<"init", 0>>, "a", PENDING, NoDate)>>,
    <<Task(<<"init", 0>>, "a", PENDING, NoDate), Task(<<"init", 1>>, "a", COMPLETED, NoDate)>>,
    <<Task(<<"init", 0>>, "a", COMPLETED, NoDate), Task(<<"init", 1>>, "a", COMPLETED, <<0>>)>> }

InitSeasons == << Season(SeasonId(0), SHO, 1, <<Story(StoryId(0), KI, <<>>)>>) >>

\* the state right after the components are constructed and bound
Constructed ==
  /\ showModal = FALSE
  /\ editingTask = Null
  /\ taskForm = [title |-> ""]
  /\ isSavingTask = FALSE
  /\ showAllTasks = FALSE
  /\ taskToDelete = Null
  /\ showDeleteConfirm = FALSE
  /\ deleteReqs = <<>>
  /\ isUpdatingExperience = FALSE
  /\ isStoryLoading = FALSE
  /\ now = 0
  /\ nextId = 0
  /\ createReqs = <<>>
  /\ updateReqs = <<>>
  /\ toggleReqs = <<>>
  /\ expReqs = 0
  /\ expCount = 0
  /\ selectedSeasonId = <<>>
  /\ selectedStorySeasonId = <<>>
  /\ selectedSeason = Null
  /\ currentView = "current"
  /\ imageRetryCount = 0
  /\ imageRetryTimeout = Null
  /\ loads = <<>>
  /\ storyReqs = <<>>
  /\ storiesGen = <<0, 0, 0>>
  /\ selections = 0
  /\ lastCall = Call("constructor", <<>>, <<>>)

Init ==
  /\ Constructed
  /\ tasks \in InitTaskLists
  /\ isEnabled \in BOOLEAN
  /\ dashboard \in {Null, Dash(tasks)}
  /\ seasons = InitSeasons

\* ------------------------------------------------------ environment
\* the clock Date.now() reads; two handlers may run within one millisecond
Tick ==
  /\ now < MaxTime
  /\ now' = now + 1
  /\ lastCall' = Call("tick", <<>>, <<>>)
  /\ UNCHANGED <<tasks, isEnabled, modalVars, saveNet, toggleReqs, expVars, dashVars,
                 seasons, nextId, storyVars, showAllTasks, deleteVars>>

\* ngOnChanges with changes['isEnabled']
SetEnabled ==
  /\ isEnabled' = ~isEnabled
  /\ lastCall' = Call("ngOnChanges", <<>>, <<>>)
  /\ UNCHANGED <<tasks, modalVars, saveNet, toggleReqs, expVars, dashVars,
                 seasons, now, nextId, storyVars, showAllTasks, deleteVars>>

\* DashboardService.resetDashboard (AppComponent calls it on sign-out)
ResetDashboard ==
  /\ dashboard # Null
  /\ dashboard' = Null
  /\ lastCall' = Call("resetDashboard", <<>>, <<>>)
  /\ UNCHANGED <<tasks, isEnabled, modalVars, saveNet, toggleReqs, expVars,
                 seasons, now, nextId, storyVars, showAllTasks, deleteVars>>

\* ------------------------------------------------------ modal and form
OpenAddTaskModal ==
  /\ lastCall' = Call("openAddTaskModal", <<>>, <<>>)
  /\ IF ~isEnabled \/ showModal \/ isSavingTask
     THEN UNCHANGED <<editingTask, taskForm, showModal>>
     ELSE /\ editingTask' = Null
          /\ taskForm' = [title |-> ""]
          /\ showModal' = TRUE
  /\ UNCHANGED <<tasks, isEnabled, isSavingTask, saveNet, toggleReqs, expVars, dashVars,
                 seasons, now, nextId, storyVars, showAllTasks, deleteVars>>

EditTask(i) ==
  /\ lastCall' = Call("editTask", <<>>, <<>>)
  /\ IF ~isEnabled \/ isSavingTask \/ showModal
     THEN UNCHANGED <<editingTask, taskForm, showModal>>
     ELSE /\ editingTask' = <<tasks[i]>>
          /\ taskForm' = [title |-> tasks[i].title]
          /\ showModal' = TRUE
  /\ UNCHANGED <<tasks, isEnabled, isSavingTask, saveNet, toggleReqs, expVars, dashVars,
                 seasons, now, nextId, storyVars, showAllTasks, deleteVars>>

CloseModal ==
  /\ lastCall' = Call("closeModal", <<>>, <<>>)
  /\ showModal' = FALSE
  /\ editingTask' = Null
  /\ taskForm' = [title |-> ""]
  /\ UNCHANGED <<tasks, isEnabled, isSavingTask, saveNet, toggleReqs, expVars, dashVars,
                 seasons, now, nextId, storyVars, showAllTasks, deleteVars>>

\* [(ngModel)]="taskForm.title" : the input exists while the modal is shown
SetTitle(t) ==
  /\ showModal
  /\ taskForm' = [title |-> t]
  /\ lastCall' = Call("titleInput", <<>>, <<>>)
  /\ UNCHANGED <<tasks, isEnabled, showModal, editingTask, isSavingTask, saveNet,
                 toggleReqs, expVars, dashVars, seasons, now, nextId, storyVars, showAllTasks, deleteVars>>

\* ------------------------------------------------------ save (create / update)
\* the temporary task createNewTask builds
LocalTask(title, time) == Task(TempId(time), title, PENDING, NoDate)

\* [localTask, ...this.tasks]
PrependMutant(t, seq) == Append(seq, t)
Prepend(t, seq) == <<t>> \o seq

\* createNewTask, the part that runs before the request is answered
CreateNewTask ==
  LET localTask == LocalTask(taskForm.title, now) IN
  /\ Len(tasks) < MaxTasks
  /\ Len(createReqs) + Len(updateReqs) < MaxPending
  /\ nextId + Len(createReqs) < MaxIds
  /\ tasks' = Prepend(localTask, tasks)
  /\ dashboard' = IF dashboard # Null THEN Dash(Prepend(localTask, tasks)) ELSE dashboard
  /\ showModal' = FALSE
  /\ editingTask' = Null
  /\ taskForm' = [title |-> ""]
  /\ isSavingTask' = FALSE
  /\ createReqs' = Append(createReqs,
                          [temp |-> localTask.id, title |-> taskForm.title,
                           dash |-> dashboard # Null])
  /\ UNCHANGED updateReqs

\* updateExistingTask, the part that runs before the request is answered
UpdateExistingTask ==
  /\ Len(createReqs) + Len(updateReqs) < MaxPending
  /\ isSavingTask' = TRUE
  /\ updateReqs' = Append(updateReqs,
                          [id |-> editingTask[1].id, title |-> taskForm.title,
                           status |-> editingTask[1].status,
                           experienced_at |-> editingTask[1].experienced_at])
  /\ UNCHANGED <<tasks, dashboard, showModal, editingTask, taskForm, createReqs>>

SaveTaskMutant ==
  /\ lastCall' = Call("saveTask", <<>>, <<>>)
  /\ IF ~isEnabled \/ ~showModal
     THEN UNCHANGED <<tasks, dashVars, modalVars, saveNet>>
     ELSE IF editingTask # Null
     THEN UpdateExistingTask
     ELSE CreateNewTask
  /\ UNCHANGED <<isEnabled, toggleReqs, expVars, seasons, now, nextId, storyVars,
                 showAllTasks, deleteVars>>
SaveTask ==
  /\ lastCall' = Call("saveTask", <<>>, <<>>)
  /\ IF ~isEnabled \/ ~showModal
     THEN UNCHANGED <<tasks, dashVars, modalVars, saveNet>>
     ELSE IF Len(taskForm.title) = 0
     THEN UNCHANGED <<tasks, dashVars, modalVars, saveNet>>
     ELSE IF editingTask # Null
     THEN UpdateExistingTask
     ELSE CreateNewTask
  /\ UNCHANGED <<isEnabled, toggleReqs, expVars, seasons, now, nextId, storyVars,
                 showAllTasks, deleteVars>>

\* createTask(...).subscribe next; dashboardData is the object createNewTask read
CreateSuccess(i) ==
  LET r == createReqs[i]
      serverTask == Task(ServerId(nextId), r.title, PENDING, NoDate)
      index == FindIndex(tasks, r.temp) IN
  /\ lastCall' = Call("createNext", <<r.temp, serverTask>>, <<>>)
  /\ createReqs' = Remove(createReqs, i)
  /\ nextId' = nextId + 1
  /\ IF index # 0
     THEN /\ tasks' = [tasks EXCEPT ![index] = serverTask]
          /\ dashboard' = IF dashboard # Null \/ r.dash
                          THEN Dash([tasks EXCEPT ![index] = serverTask]) ELSE dashboard
     ELSE UNCHANGED <<tasks, dashboard>>
  /\ UNCHANGED <<isEnabled, modalVars, updateReqs, toggleReqs, expVars, seasons, now,
                 storyVars, showAllTasks, deleteVars>>

\* createTask(...).subscribe error
CreateError(i) ==
  LET r == createReqs[i] IN
  /\ lastCall' = Call("createError", <<r.temp>>, <<>>)
  /\ createReqs' = Remove(createReqs, i)
  /\ tasks' = FilterOutId(tasks, r.temp)
  /\ dashboard' = IF r.dash THEN Dash(FilterOutId(tasks, r.temp)) ELSE dashboard
  /\ UNCHANGED <<isEnabled, modalVars, updateReqs, toggleReqs, expVars, seasons, now,
                 nextId, storyVars, showAllTasks, deleteVars>>

\* this.tasks[index] = t : the array is mutated in place, and the dashboard
\* data, when held, references the same array (dashboardData.tasks = this.tasks)
AssignInPlaceMutant(index, t) ==
  /\ tasks' = <<t>> \o Remove(tasks, index)
  /\ dashboard' = IF dashboard # Null THEN Dash(<<t>> \o Remove(tasks, index)) ELSE dashboard
AssignInPlace(index, t) ==
  /\ tasks' = [tasks EXCEPT ![index] = t]
  /\ dashboard' = IF dashboard # Null THEN Dash([tasks EXCEPT ![index] = t]) ELSE dashboard

\* updateTask(...).subscribe next
UpdateSuccess(i) ==
  LET r == updateReqs[i]
      updatedTask == Task(r.id, r.title, r.status, r.experienced_at)
      index == FindIndex(tasks, updatedTask.id) IN
  /\ lastCall' = Call("updateNext", <<>>, <<>>)
  /\ updateReqs' = Remove(updateReqs, i)
  /\ IF index # 0 THEN AssignInPlace(index, updatedTask)
                  ELSE UNCHANGED <<tasks, dashboard>>
  /\ showModal' = FALSE
  /\ editingTask' = Null
  /\ taskForm' = [title |-> ""]
  /\ isSavingTask' = FALSE
  /\ UNCHANGED <<isEnabled, createReqs, toggleReqs, expVars, seasons, now,
                 nextId, storyVars, showAllTasks, deleteVars>>

\* updateTask(...).subscribe error
UpdateError(i) ==
  /\ lastCall' = Call("updateError", <<>>, <<>>)
  /\ updateReqs' = Remove(updateReqs, i)
  /\ showModal' = TRUE
  /\ isSavingTask' = FALSE
  /\ UNCHANGED <<tasks, isEnabled, editingTask, taskForm, createReqs, toggleReqs, expVars,
                 dashVars, seasons, now, nextId, storyVars, showAllTasks, deleteVars>>

Next ==
  \/ Tick
  \/ SetEnabled
  \/ ResetDashboard
  \/ OpenAddTaskModal
  \/ \E i \in DOMAIN tasks : EditTask(i)
  \/ CloseModal
  \/ \E t \in Titles \cup {""} : SetTitle(t)
  \/ SaveTask
  \/ \E i \in DOMAIN createReqs : CreateSuccess(i)
  \/ \E i \in DOMAIN createReqs : CreateError(i)
  \/ \E i \in DOMAIN updateReqs : UpdateSuccess(i)
  \/ \E i \in DOMAIN updateReqs : UpdateError(i)

Spec == Init /\ [][Next]_vars

\* ------------------------------------------------------ toggle
ToggleTask(i) ==
  LET task == tasks[i]
      newStatus == IF task.status = PENDING THEN COMPLETED ELSE PENDING IN
  /\ lastCall' = Call("toggleTask", <<>>, <<>>)
  /\ IF ~isEnabled
     THEN UNCHANGED toggleReqs
     ELSE /\ Len(toggleReqs) < MaxToggles
          /\ toggleReqs' = Append(toggleReqs,
                                  [id |-> task.id, title |-> task.title, status |-> newStatus,
                                   experienced_at |-> task.experienced_at])
  /\ UNCHANGED <<tasks, isEnabled, modalVars, saveNet, expVars, dashVars, seasons, now,
                 nextId, storyVars, showAllTasks, deleteVars>>

\* updateTaskStatus(...).subscribe next
ToggleSuccess(i) ==
  LET r == toggleReqs[i]
      updatedTask == Task(r.id, r.title, r.status, r.experienced_at)
      index == FindIndex(tasks, r.id) IN
  /\ lastCall' = Call("toggleNext", <<>>, <<>>)
  /\ toggleReqs' = Remove(toggleReqs, i)
  /\ IF index # 0 THEN AssignInPlace(index, updatedTask)
                  ELSE UNCHANGED <<tasks, dashboard>>
  /\ UNCHANGED <<isEnabled, modalVars, saveNet, expVars, seasons, now, nextId, storyVars,
                 showAllTasks, deleteVars>>

\* updateTaskStatus(...).subscribe error
ToggleError(i) ==
  /\ lastCall' = Call("toggleError", <<>>, <<>>)
  /\ toggleReqs' = Remove(toggleReqs, i)
  /\ UNCHANGED <<tasks, isEnabled, modalVars, saveNet, expVars, dashVars, seasons, now,
                 nextId, storyVars, showAllTasks, deleteVars>>

\* ------------------------------------------------------ experience update
\* tasks.some(task => task.status === COMPLETED && !task.experienced_at)
HasEligibleTasksMutant(seq) == \E i \in DOMAIN seq : seq[i].status = COMPLETED
HasEligibleTasks(seq) ==
  \E i \in DOMAIN seq : seq[i].status = COMPLETED /\ seq[i].experienced_at = NoDate

\* the conditions of updateExperience under which the request is sent
CanUpdateExperienceMutant == isEnabled /\ HasEligibleTasks(tasks)
CanUpdateExperience == isEnabled /\ ~isUpdatingExperience /\ HasEligibleTasks(tasks)

\* HomeComponent.onStoryLoading applied to the values a handler emitted
OnStoryLoading(emitted) ==
  isStoryLoading' = IF emitted = <<>> THEN isStoryLoading ELSE emitted[Len(emitted)]

UpdateExperience ==
  LET emitted == IF CanUpdateExperience THEN <<TRUE>> ELSE <<>> IN
  /\ lastCall' = Call("updateExperience", <<>>, emitted)
  /\ IF CanUpdateExperience
     THEN /\ expCount < MaxExp
          /\ isUpdatingExperience' = TRUE
          /\ expReqs' = expReqs + 1
          /\ expCount' = expCount + 1
     ELSE UNCHANGED <<isUpdatingExperience, expReqs, expCount>>
  /\ OnStoryLoading(emitted)
  /\ UNCHANGED <<tasks, isEnabled, modalVars, saveNet, toggleReqs, dashVars, seasons, now,
                 nextId, storyVars, showAllTasks, deleteVars>>

\* the bodies PUT /users/me/experience can answer with: the season the story
\* belongs to (held by the client or not), an optional new season with an id
\* of its own, and the new story
ExpResponses ==
  { [earned_exp |-> e, season |-> Season(sid, ph, 2, <<>>), new_season |-> ns,
     story |-> Story(StoryId(expCount), ph, <<>>)] :
      e \in {0, 10},
      sid \in {seasons[i].id : i \in DOMAIN seasons} \cup {<<"unknown", 0>>},
      ph \in {SHO, KAN},
      ns \in {<<>>, <<Season(SeasonId(expCount), KI, 0, <<>>)>>} }

\* lines 787-820: replace the season keeping its stories, add the new season
\* in front, put the story in front of the stories of the response's season
UpdateSeasonsMutant(ss, resp) ==
  LET seasonIndex == FindIndex(ss, resp.season.id)
  IN IF seasonIndex # 0
     THEN [ss EXCEPT ![seasonIndex] =
             [resp.season EXCEPT !.stories = Append(ss[seasonIndex].stories, resp.story)]]
     ELSE ss
UpdateSeasons(ss, resp) ==
  LET seasonIndex == FindIndex(ss, resp.season.id)
      replaced == IF seasonIndex # 0
                  THEN [ss EXCEPT ![seasonIndex] =
                          [resp.season EXCEPT !.stories = ss[seasonIndex].stories]]
                  ELSE ss
      withNew == IF resp.new_season # <<>> THEN <<resp.new_season[1]>> \o replaced
                 ELSE replaced
      current == FindIndex(withNew, resp.season.id)
  IN IF current # 0
     THEN [withNew EXCEPT ![current].stories = <<resp.story>> \o @]
     ELSE withNew

\* this.tasks.map(...) of lines 808-813
MarkExperiencedMutant(seq, date) ==
  [i \in DOMAIN seq |->
     IF seq[i].experienced_at = NoDate
     THEN [seq[i] EXCEPT !.experienced_at = <<date>>]
     ELSE seq[i]]
MarkExperienced(seq, date) ==
  [i \in DOMAIN seq |->
     IF seq[i].status = COMPLETED /\ seq[i].experienced_at = NoDate
     THEN [seq[i] EXCEPT !.experienced_at = <<date>>]
     ELSE seq[i]]

\* updateUserExperience().subscribe next
ExperienceSuccess(resp) ==
  /\ expReqs > 0
  /\ lastCall' = Call("experienceNext", <<resp>>, <<FALSE>>)
  /\ expReqs' = expReqs - 1
  /\ IF resp.earned_exp = 0 \/ dashboard = Null
     THEN UNCHANGED <<tasks, dashboard, seasons>>
     ELSE /\ seasons' = UpdateSeasons(seasons, resp)
          /\ tasks' = MarkExperienced(tasks, now)
          /\ dashboard' = Dash(MarkExperienced(tasks, now))
  /\ isUpdatingExperience' = FALSE
  /\ OnStoryLoading(<<FALSE>>)
  /\ UNCHANGED <<isEnabled, modalVars, saveNet, toggleReqs, expCount, now, nextId,
                 storyVars, showAllTasks, deleteVars>>

\* updateUserExperience().subscribe error
ExperienceErrorMutant ==
  /\ expReqs > 0
  /\ lastCall' = Call("experienceError", <<>>, <<>>)
  /\ expReqs' = expReqs - 1
  /\ UNCHANGED <<tasks, isEnabled, modalVars, saveNet, toggleReqs, dashVars, seasons,
                 isUpdatingExperience, isStoryLoading, expCount, now, nextId, storyVars, showAllTasks, deleteVars>>
ExperienceError ==
  /\ expReqs > 0
  /\ lastCall' = Call("experienceError", <<>>, <<FALSE>>)
  /\ expReqs' = expReqs - 1
  /\ isUpdatingExperience' = FALSE
  /\ OnStoryLoading(<<FALSE>>)
  /\ UNCHANGED <<tasks, isEnabled, modalVars, saveNet, toggleReqs, dashVars, seasons,
                 expCount, now, nextId, storyVars, showAllTasks, deleteVars>>

ExperienceResponse == ExperienceError \/ \E resp \in ExpResponses : ExperienceSuccess(resp)

ExperienceNext ==
  \/ Tick
  \/ SetEnabled
  \/ ResetDashboard
  \/ \E i \in DOMAIN tasks : ToggleTask(i)
  \/ \E i \in DOMAIN toggleReqs : ToggleSuccess(i)
  \/ \E i \in DOMAIN toggleReqs : ToggleError(i)
  \/ UpdateExperience
  \/ ExperienceError
  \/ \E resp \in ExpResponses : ExperienceSuccess(resp)

ExperienceSpec == Init /\ [][ExperienceNext]_vars

\* the HTTP client answers every request, with a body or with an error
FairExperienceSpec == ExperienceSpec /\ WF_vars(ExperienceResponse)

\* ------------------------------------------------------ StoryComponent
\* Two completed seasons, one with its stories held and one whose stories are
\* still to be fetched, and the season in progress.  The slice starts after the
\* 100 ms timer of the constructor has cleared isInitialLoad.
StorySeasons ==
  << Season(SeasonId(1), KAN, 4, <<Story(StoryId(0), KI, <<>>), Story(StoryId(1), KAN, <<>>)>>),
     Season(SeasonId(2), KAN, 4, <<>>),
     Season(SeasonId(3), SHO, 1, <<Story(StoryId(3), KI, <<>>)>>) >>

StoryInit ==
  /\ Constructed
  /\ tasks = <<>>
  /\ isEnabled = TRUE
  /\ dashboard = Null
  /\ seasons = StorySeasons

taskSide == <<tasks, modalVars, saveNet, toggleReqs, expVars, dashVars, now, nextId,
              showAllTasks, deleteVars>>

\* values the parent can bind to selectedSeasonId / selectedStorySeasonId
SeasonInputs == {<<>>} \cup { <<seasons[i].id>> : i \in DOMAIN seasons }

\* season.stories.find(story => story.phase === KAN); 0 stands for undefined
KanStory(se) ==
  IF \E i \in DOMAIN se.stories : se.stories[i].phase = KAN
  THEN CHOOSE i \in DOMAIN se.stories :
         se.stories[i].phase = KAN /\ \A j \in 1..(i-1) : se.stories[j].phase # KAN
  ELSE 0

\* One image load: the loadStoryImages call a handler makes, with the calls its
\* retry timers make.  gen names the story object the request in flight holds,
\* retries counts the timers the load has set while it is active, reselected
\* records a user selection made after the load was started.
NewLoad(s, gen) ==
  [season |-> s, gen |-> gen, state |-> "request", retries |-> 0, reselected |-> FALSE]

\* loadStoryImages(season), up to the request it sends
LoadStoryImages(ls, ss, gen, s) ==
  IF ss[s].current_phase # KAN \/ KanStory(ss[s]) = 0
  THEN ls
  ELSE Append(ls, NewLoad(s, gen[s]))

\* the block ngOnChanges runs for a selected id: find the season, show it,
\* fetch its stories if it has none, load its image if it is completed
ShowSeason(st, s) ==
  IF s = 0 THEN st
  ELSE LET a == [st EXCEPT !.selectedSeason = <<seasons[s].id>>]
           b == IF seasons[s].current_chapter # 0 /\ seasons[s].stories = <<>>
                THEN [a EXCEPT !.storyReqs = Append(@, s)]
                ELSE a
       IN IF seasons[s].current_phase = KAN
          THEN [b EXCEPT !.loads = LoadStoryImages(@, seasons, storiesGen, s)]
          ELSE b

Reselect(ls) == [k \in DOMAIN ls |-> [ls[k] EXCEPT !.reselected = TRUE]]

StoriesSent(reqs) == Len(reqs) + storiesGen[1] + storiesGen[2] + storiesGen[3]

\* ngOnChanges for a change of selectedStorySeasonId, selectedSeasonId or both
NgOnChanges(newStory, newSel) ==
  /\ <<newStory, newSel>> # <<selectedStorySeasonId, selectedSeasonId>>
  /\ selections < MaxSelections
  /\ selections' = selections + 1
  /\ LET st0 == [selectedSeason |-> selectedSeason, currentView |-> currentView,
                 storyReqs |-> storyReqs,
                 loads |-> Reselect(loads)]
         st1 == IF newStory # selectedStorySeasonId /\ newStory # <<>>
                THEN ShowSeason(st0, FindIndex(seasons, newStory[1]))
                ELSE st0
         st2 == IF newSel # selectedSeasonId /\ newSel # <<>>
                THEN ShowSeason(st1, FindIndex(seasons, newSel[1]))
                ELSE st1
     IN /\ Len(st2.loads) <= MaxLoads
        /\ StoriesSent(st2.storyReqs) <= MaxStoryReqs
        /\ selectedSeason' = st2.selectedSeason
        /\ currentView' = st2.currentView
        /\ storyReqs' = st2.storyReqs
        /\ loads' = st2.loads
  /\ selectedStorySeasonId' = newStory
  /\ selectedSeasonId' = newSel
  /\ lastCall' = Call("ngOnChanges", <<>>, <<>>)
  /\ UNCHANGED <<taskSide, isEnabled, seasons, imageRetryCount, imageRetryTimeout, storiesGen>>

\* selectSeason(season): a click on a season of the history list
SelectSeason(s) ==
  /\ isEnabled
  /\ selections < MaxSelections
  /\ selections' = selections + 1
  /\ IF seasons[s].current_chapter # 0 /\ seasons[s].stories = <<>>
     THEN /\ StoriesSent(storyReqs) < MaxStoryReqs
          /\ storyReqs' = Append(storyReqs, s)
          /\ loads' = Reselect(loads)
          /\ UNCHANGED <<selectedSeason, currentView>>
     ELSE /\ selectedSeason' = <<seasons[s].id>>
          /\ currentView' = "current"
          /\ loads' = IF seasons[s].current_phase = KAN
                      THEN LoadStoryImages(Reselect(loads), seasons, storiesGen, s)
                      ELSE Reselect(loads)
          /\ Len(loads') <= MaxLoads
          /\ UNCHANGED storyReqs
  /\ lastCall' = Call("selectSeason", <<>>, <<>>)
  /\ UNCHANGED <<taskSide, isEnabled, seasons, selectedSeasonId, selectedStorySeasonId,
                 imageRetryCount, imageRetryTimeout, storiesGen>>

\* what GET /seasons/:id/stories can deliver for a completed season
StoryLists(s) ==
  { <<>>, <<Story(StoryId(s), KAN, <<>>)>> }

\* loadStories, next
LoadStoriesSuccess(i, stories) ==
  /\ i \in DOMAIN storyReqs
  /\ LET s == storyReqs[i]
         ss == [seasons EXCEPT ![s].stories = stories]
         gen == [storiesGen EXCEPT ![s] = @ + 1] IN
     /\ seasons' = ss
     /\ storiesGen' = gen
     /\ selectedSeason' = <<seasons[s].id>>
     /\ currentView' = "current"
     /\ loads' = IF ss[s].current_phase = KAN
                 THEN LoadStoryImages(loads, ss, gen, s)
                 ELSE loads
     /\ Len(loads') <= MaxLoads
  /\ storyReqs' = Remove(storyReqs, i)
  /\ lastCall' = Call("storiesNext", <<>>, <<>>)
  /\ UNCHANGED <<taskSide, isEnabled, selections, selectedSeasonId, selectedStorySeasonId,
                 imageRetryCount, imageRetryTimeout>>

\* loadStories, error
LoadStoriesError(i) ==
  /\ i \in DOMAIN storyReqs
  /\ selectedSeason' = <<seasons[storyReqs[i]].id>>
  /\ currentView' = "current"
  /\ storyReqs' = Remove(storyReqs, i)
  /\ lastCall' = Call("storiesError", <<>>, <<>>)
  /\ UNCHANGED <<taskSide, isEnabled, selections, seasons, selectedSeasonId, selectedStorySeasonId,
                 imageRetryCount, imageRetryTimeout, loads, storiesGen>>

\* a load that has ended keeps its season and its outcome
Ended(l, outcome) == [l EXCEPT !.state = outcome, !.retries = 0]

\* clearTimeout(handle): the timer the handle names no longer fires
ClearTimeout(ls, handle) ==
  [j \in DOMAIN ls |->
     IF handle = <<j>> /\ ls[j].state = "timer"
     THEN Ended(ls[j], "cancelled")
     ELSE ls[j]]

\* getStoryImage, next: the url goes to the story object the request holds
ImageSuccess(k) ==
  /\ k \in DOMAIN loads
  /\ loads[k].state = "request"
  /\ LET s == loads[k].season IN
     seasons' = IF loads[k].gen = storiesGen[s]
                THEN [seasons EXCEPT ![s].stories[KanStory(seasons[s])].imageUrl = <<"url">>]
                ELSE seasons
  /\ imageRetryCount' = 0
  /\ loads' = [ClearTimeout(loads, imageRetryTimeout) EXCEPT ![k] = Ended(@, "success")]
  /\ imageRetryTimeout' = Null
  /\ lastCall' = Call("imageNext", <<>>, <<>>)
  /\ UNCHANGED <<taskSide, isEnabled, selections, selectedSeasonId, selectedStorySeasonId,
                 selectedSeason, currentView, storyReqs, storiesGen>>

\* retries are counted up to one past the limit
Bump(n) == IF n > MAX_LOADING_STEPS THEN n ELSE n + 1

\* getStoryImage, error
ImageError(k) ==
  /\ k \in DOMAIN loads
  /\ loads[k].state = "request"
  /\ IF imageRetryCount < MAX_LOADING_STEPS
     THEN /\ imageRetryCount' = imageRetryCount + 1
          /\ imageRetryTimeout' = <<k>>
          /\ loads' = [loads EXCEPT ![k].state = "timer", ![k].retries = Bump(@)]
     ELSE /\ imageRetryCount' = 0
          /\ loads' = [loads EXCEPT ![k] = Ended(@, "gaveUp")]
          /\ UNCHANGED imageRetryTimeout
  /\ lastCall' = Call("imageError", <<>>, <<>>)
  /\ UNCHANGED <<taskSide, isEnabled, selections, seasons, selectedSeasonId, selectedStorySeasonId,
                 selectedSeason, currentView, storyReqs, storiesGen>>

\* the retry timer fires after LOADING_INTERVAL_MS: loadStoryImages(season) again
RetryTimer(k) ==
  /\ k \in DOMAIN loads
  /\ loads[k].state = "timer"
  /\ LET s == loads[k].season IN
     loads' = IF seasons[s].current_phase # KAN \/ KanStory(seasons[s]) = 0
              THEN [loads EXCEPT ![k] = Ended(@, "dropped")]
              ELSE [loads EXCEPT ![k].state = "request", ![k].gen = storiesGen[s]]
  /\ lastCall' = Call("retryTimer", <<>>, <<>>)
  /\ UNCHANGED <<taskSide, isEnabled, selections, seasons, selectedSeasonId, selectedStorySeasonId,
                 selectedSeason, currentView, imageRetryCount, imageRetryTimeout,
                 storyReqs, storiesGen>>

StoryNext ==
  \/ \E a, b \in SeasonInputs : NgOnChanges(a, b)
  \/ \E s \in DOMAIN seasons : SelectSeason(s)
  \/ \E i \in 1..MaxStoryReqs : \E st \in StoryLists(2) : LoadStoriesSuccess(i, st)
  \/ \E i \in 1..MaxStoryReqs : LoadStoriesError(i)
  \/ \E k \in 1..MaxLoads : ImageSuccess(k)
  \/ \E k \in 1..MaxLoads : ImageError(k)
  \/ \E k \in 1..MaxLoads : RetryTimer(k)

StorySpec == StoryInit /\ [][StoryNext]_vars

\* ------------------------------------------------------ StoryComponent, displayed season
\* The getter currentSeason reads the inputs seasons, selectedSeasonId and
\* selectedStorySeasonId and the fields _currentView and selectedSeason; the
\* slice draws them and applies the getter.
ViewSeasonLists ==
  { StorySeasons,
    <<Season(SeasonId(1), KAN, 4, <<>>)>>,
    <<Season(SeasonId(3), SHO, 1, <<>>), Season(SeasonId(4), KI, 0, <<>>)>> }

\* ids the parent can bind: undefined, the id of a held season, an id no season has
ViewIds(ss) == {<<>>, <<<<"unknown", 0>>>>} \cup { <<ss[i].id>> : i \in DOMAIN ss }

ViewInit ==
  /\ tasks = <<>>
  /\ isEnabled = TRUE
  /\ dashboard = Null
  /\ showModal = FALSE
  /\ editingTask = Null
  /\ taskForm = [title |-> ""]
  /\ isSavingTask = FALSE
  /\ showAllTasks = FALSE
  /\ taskToDelete = Null
  /\ showDeleteConfirm = FALSE
  /\ deleteReqs = <<>>
  /\ isUpdatingExperience = FALSE
  /\ isStoryLoading = FALSE
  /\ now = 0
  /\ nextId = 0
  /\ createReqs = <<>>
  /\ updateReqs = <<>>
  /\ toggleReqs = <<>>
  /\ expReqs = 0
  /\ expCount = 0
  /\ imageRetryCount = 0
  /\ imageRetryTimeout = Null
  /\ loads = <<>>
  /\ storyReqs = <<>>
  /\ storiesGen = <<0, 0, 0>>
  /\ selections = 0
  /\ lastCall = Call("constructor", <<>>, <<>>)
  /\ seasons \in ViewSeasonLists
  /\ selectedSeasonId \in ViewIds(seasons)
  /\ selectedStorySeasonId \in ViewIds(seasons)
  /\ selectedSeason \in {Null} \cup { <<seasons[i].id>> : i \in DOMAIN seasons }
  /\ currentView \in {"current", "history"}

\* this.seasons.find(s => s.id === id), as <<id>>; <<>> stands for undefined
FindSeason(ss, id) ==
  IF FindIndex(ss, id) # 0 THEN <<ss[FindIndex(ss, id)].id>> ELSE <<>>

\* this.seasons.find(s => s.current_phase !== 4)
FindInProgress(ss) ==
  IF \E i \in DOMAIN ss : ss[i].current_phase # KAN
  THEN LET i == CHOOSE i \in DOMAIN ss :
                  ss[i].current_phase # KAN /\ \A j \in 1..(i-1) : ss[j].current_phase = KAN
       IN <<ss[i].id>>
  ELSE <<>>

\* get currentSeason()
CurrentSeason ==
  IF selectedStorySeasonId # <<>> /\ FindSeason(seasons, selectedStorySeasonId[1]) # <<>>
  THEN FindSeason(seasons, selectedStorySeasonId[1])
  ELSE IF selectedSeasonId # <<>> /\ FindSeason(seasons, selectedSeasonId[1]) # <<>>
  THEN FindSeason(seasons, selectedSeasonId[1])
  ELSE IF currentView = "history" /\ selectedSeason # Null
  THEN selectedSeason
  ELSE IF selectedSeason # Null
  THEN selectedSeason
  ELSE FindInProgress(seasons)

\* the template reads currentSeason
GetCurrentSeason ==
  /\ lastCall' = Call("currentSeason", CurrentSeason, <<>>)
  /\ UNCHANGED <<taskSide, isEnabled, seasons, storyVars>>

SwitchToCurrentView ==
  /\ currentView' = "current"
  /\ lastCall' = Call("switchToCurrentView", <<>>, <<>>)
  /\ UNCHANGED <<taskSide, isEnabled, seasons, selectedSeasonId, selectedStorySeasonId,
                 selectedSeason, imageRetryCount, imageRetryTimeout, loads, storyReqs,
                 storiesGen, selections>>

SwitchToHistoryView ==
  /\ currentView' = "history"
  /\ lastCall' = Call("switchToHistoryView", <<>>, <<>>)
  /\ UNCHANGED <<taskSide, isEnabled, seasons, selectedSeasonId, selectedStorySeasonId,
                 selectedSeason, imageRetryCount, imageRetryTimeout, loads, storyReqs,
                 storiesGen, selections>>

ViewNext ==
  \/ GetCurrentSeason
  \/ SwitchToCurrentView
  \/ SwitchToHistoryView

ViewSpec == ViewInit /\ [][ViewNext]_vars

\* ------------------------------------------------------ TaskListComponent.displayTasks
\* the tasks of this slice carry created_at, which the sort reads
DisplayTask(k, status, created) ==
  [id |-> <<"init", k>>, title |-> "a", status |-> status, experienced_at |-> NoDate,
   created_at |-> created]

\* every list of up to MaxShown tasks, the k-th with id k
DisplayTaskLists ==
  UNION { { [k \in 1..n |-> DisplayTask(k, st[k], cr[k])] :
              st \in [1..n -> {PENDING, COMPLETED}], cr \in [1..n -> 0..MaxCreated] } :
          n \in 0..MaxShown }

DisplayInit ==
  /\ Constructed
  /\ tasks \in DisplayTaskLists
  /\ isEnabled \in BOOLEAN
  /\ dashboard \in {Null, Dash(tasks)}
  /\ seasons = InitSeasons

\* the comparator of displayTasks: status ascending, then created_at descending
CompareMutant(a, b) ==
  IF a.status # b.status THEN a.status - b.status ELSE a.created_at - b.created_at
Compare(a, b) ==
  IF a.status # b.status THEN a.status - b.status ELSE b.created_at - a.created_at

\* Array.prototype.sort(compare): a stable sort
Insert(x, sorted) ==
  LET k == Cardinality({ i \in DOMAIN sorted : Compare(sorted[i], x) <= 0 })
  IN SubSeq(sorted, 1, k) \o <<x>> \o SubSeq(sorted, k + 1, Len(sorted))

RECURSIVE Sort(_)
Sort(seq) ==
  IF seq = <<>> THEN <<>>
  ELSE Insert(seq[Len(seq)], Sort(SubSeq(seq, 1, Len(seq) - 1)))

\* this.tasks.filter(task => task.status === 0)
RECURSIVE FilterPending(_)
FilterPending(seq) ==
  IF seq = <<>> THEN <<>>
  ELSE IF Head(seq).status = 0 THEN <<Head(seq)>> \o FilterPending(Tail(seq))
       ELSE FilterPending(Tail(seq))

\* get displayTasks(): with showAllTasks the sort is applied to this.tasks itself,
\* which the dashboard data shares
GetDisplayTasks ==
  /\ IF showAllTasks
     THEN /\ tasks' = Sort(tasks)
          /\ dashboard' = IF dashboard # Null THEN Dash(tasks') ELSE Null
          /\ lastCall' = Call("displayTasks", tasks', <<>>)
     ELSE /\ lastCall' = Call("displayTasks", Sort(FilterPending(tasks)), <<>>)
          /\ UNCHANGED <<tasks, dashboard>>
  /\ UNCHANGED <<isEnabled, modalVars, saveNet, toggleReqs, expVars, seasons, now, nextId,
                 storyVars, showAllTasks, deleteVars>>

\* toggleViewMode()
ToggleViewMode ==
  /\ showAllTasks' = IF isEnabled THEN ~showAllTasks ELSE showAllTasks
  /\ lastCall' = Call("toggleViewMode", <<>>, <<>>)
  /\ UNCHANGED <<tasks, isEnabled, modalVars, saveNet, toggleReqs, expVars, dashVars,
                 seasons, now, nextId, storyVars, deleteVars>>

DisplayNext ==
  \/ SetEnabled
  \/ ToggleViewMode
  \/ GetDisplayTasks

DisplaySpec == DisplayInit /\ [][DisplayNext]_vars

\* ------------------------------------------------------ delete
\* deleteTask(task): a click on the delete button of a row
DeleteTask(i) ==
  /\ i \in DOMAIN tasks
  /\ IF isEnabled
     THEN /\ taskToDelete' = <<tasks[i].id>>
          /\ showDeleteConfirm' = TRUE
     ELSE UNCHANGED <<taskToDelete, showDeleteConfirm>>
  /\ lastCall' = Call("deleteTask", <<tasks[i].id>>, <<>>)
  /\ UNCHANGED <<tasks, isEnabled, modalVars, saveNet, toggleReqs, expVars, dashVars,
                 seasons, now, nextId, storyVars, showAllTasks, deleteReqs>>

\* cancelDelete()
CancelDelete ==
  /\ showDeleteConfirm' = FALSE
  /\ taskToDelete' = Null
  /\ lastCall' = Call("cancelDelete", <<>>, <<>>)
  /\ UNCHANGED <<tasks, isEnabled, modalVars, saveNet, toggleReqs, expVars, dashVars,
                 seasons, now, nextId, storyVars, showAllTasks, deleteReqs>>

\* confirmDelete(), up to the request
ConfirmDelete ==
  /\ IF taskToDelete # Null
     THEN /\ Len(deleteReqs) < MaxDeletes
          /\ deleteReqs' = Append(deleteReqs, taskToDelete[1])
     ELSE UNCHANGED deleteReqs
  /\ lastCall' = Call("confirmDelete", taskToDelete, <<>>)
  /\ UNCHANGED <<tasks, isEnabled, modalVars, saveNet, toggleReqs, expVars, dashVars,
                 seasons, now, nextId, storyVars, showAllTasks, taskToDelete,
                 showDeleteConfirm>>

\* this.tasks.filter(t => t.id !== this.taskToDelete?.id): the id is read when
\* the response arrives; no task has the id undefined
FilterOutTaskToDelete(seq, target) ==
  IF target = Null THEN seq ELSE FilterOutId(seq, target[1])

\* confirmDelete: next
DeleteSuccess(i) ==
  /\ i \in DOMAIN deleteReqs
  /\ tasks' = FilterOutTaskToDelete(tasks, taskToDelete)
  /\ dashboard' = IF dashboard # Null THEN Dash(tasks') ELSE Null
  /\ showDeleteConfirm' = FALSE
  /\ taskToDelete' = Null
  /\ deleteReqs' = Remove(deleteReqs, i)
  /\ lastCall' = Call("deleteNext", <<deleteReqs[i]>>, <<>>)
  /\ UNCHANGED <<isEnabled, modalVars, saveNet, toggleReqs, expVars, seasons, now, nextId,
                 storyVars, showAllTasks>>

\* confirmDelete: error
DeleteError(i) ==
  /\ i \in DOMAIN deleteReqs
  /\ deleteReqs' = Remove(deleteReqs, i)
  /\ lastCall' = Call("deleteError", <<deleteReqs[i]>>, <<>>)
  /\ UNCHANGED <<tasks, isEnabled, modalVars, saveNet, toggleReqs, expVars, dashVars,
                 seasons, now, nextId, storyVars, showAllTasks, taskToDelete,
                 showDeleteConfirm>>

DeleteNext ==
  \/ SetEnabled
  \/ ResetDashboard
  \/ \E i \in 1..MaxTasks : DeleteTask(i)
  \/ CancelDelete
  \/ ConfirmDelete
  \/ \E i \in 1..MaxDeletes : DeleteSuccess(i)
  \/ \E i \in 1..MaxDeletes : DeleteError(i)

DeleteSpec == Init /\ [][DeleteNext]_vars

\* ------------------------------------------------------ properties of Spec
IsTemp(id) == id[1] = "temp"
Ids(seq) == {seq[i].id : i \in DOMAIN seq}

\* C1: a saveTask call for a new task (editingTask null) with a non-empty title,
\* made while the component is enabled and the modal is open, puts a PENDING
\* task with a temporary id at the head of the task list in front of the
\* unchanged previous tasks, leaves the dashboard data (when held) with that
\* same list, closes the modal, leaves isSavingTask false, and all of this
\* while the create request is still in flight.
C1_OptimisticAdd ==
  [][ (lastCall'.op = "saveTask" /\ isEnabled /\ showModal /\ editingTask = Null
         /\ taskForm.title # "")
      => /\ tasks' # <<>>
         /\ Head(tasks').status = PENDING
         /\ IsTemp(Head(tasks').id)
         /\ Head(tasks').title = taskForm.title
         /\ Tail(tasks') = tasks
         /\ (dashboard # Null => dashboard' # Null)
         /\ (dashboard' # Null => dashboard'[1].tasks = tasks')
         /\ ~showModal'
         /\ ~isSavingTask'
         /\ Len(createReqs') = Len(createReqs) + 1
         /\ createReqs'[Len(createReqs')].temp = Head(tasks').id ]_vars

\* the optimistic add happened in front of an existing task, dashboard held
C1_Witness ==
  /\ lastCall.op = "saveTask"
  /\ Len(tasks) >= 2
  /\ IsTemp(Head(tasks).id)
  /\ ~IsTemp(tasks[2].id)
  /\ dashboard # Null
  /\ \E i \in DOMAIN createReqs : createReqs[i].temp = Head(tasks).id

\* C2: when a create request succeeds, the temporary task is replaced by the
\* server's task at its list position, every other task is unchanged and no
\* task with the temporary id remains.
C2_ReplacedByServerTask ==
  [][ lastCall'.op = "createNext"
      => LET temp == lastCall'.arg[1]
             serverTask == lastCall'.arg[2] IN
         /\ \E i \in DOMAIN tasks :
               /\ tasks[i].id = temp
               /\ tasks' = [tasks EXCEPT ![i] = serverTask]
         /\ temp \notin Ids(tasks') ]_vars

\* C3: when a create request fails, the temporary task is removed from the
\* task list and from the dashboard data's list, and every other task stays,
\* in its previous order: exactly one entry, the temporary one, is taken out.
C3_RolledBack ==
  [][ lastCall'.op = "createError"
      => LET temp == lastCall'.arg[1] IN
         /\ \E i \in DOMAIN tasks :
               /\ tasks[i].id = temp
               /\ tasks' = Remove(tasks, i)
         /\ temp \notin Ids(tasks')
         /\ (dashboard' # Null => dashboard'[1].tasks = tasks') ]_vars

\* C15: a saveTask call made while the component is disabled, the modal is not
\* open or the title is empty sends no request and changes no field.
C15_SaveTaskNoOp ==
  [][ (lastCall'.op = "saveTask" /\ (~isEnabled \/ ~showModal \/ taskForm.title = ""))
      => (UNCHANGED <<tasks, isEnabled, showModal, editingTask, taskForm, isSavingTask,
                      createReqs, updateReqs, toggleReqs, expVars, dashVars, seasons, now,
                      nextId, storyVars, showAllTasks, deleteVars>>) ]_vars

\* saveTask was called with the modal open, the component enabled and no title
C15_Witness ==
  /\ lastCall.op = "saveTask"
  /\ isEnabled
  /\ showModal
  /\ taskForm.title = ""
  /\ tasks # <<>>

\* C16: while a create or update request of an earlier saveTask is unanswered,
\* a saveTask call sends no further create or update request.
C16_NoDoubleSubmission ==
  [][ (lastCall'.op = "saveTask" /\ (createReqs # <<>> \/ updateReqs # <<>>))
      => (createReqs' = createReqs /\ updateReqs' = updateReqs) ]_vars

\* ------------------------------------------------------ properties of ExperienceSpec
\* every variable but the call record
state == <<tasks, isEnabled, modalVars, saveNet, toggleReqs, expVars, dashVars,
           seasons, now, nextId, storyVars, showAllTasks, deleteVars>>

\* a task that is COMPLETED and has no experienced_at
Unrewarded(t) == t.status = COMPLETED /\ t.experienced_at = NoDate
SomeUnrewarded(seq) == \E i \in DOMAIN seq : Unrewarded(seq[i])

\* C4: at most one experience request is in flight, and an updateExperience
\* call made while isUpdatingExperience is true sends nothing, emits nothing
\* and changes no field.
C4_SingleRequest ==
  /\ [](expReqs <= 1)
  /\ [][ (lastCall'.op = "updateExperience" /\ isUpdatingExperience)
         => (UNCHANGED state /\ lastCall'.storyLoading = <<>>) ]_vars

\* updateExperience was called, and turned away, while a request was in flight
\* and everything else would have let it through
C4_Witness ==
  /\ lastCall.op = "updateExperience"
  /\ lastCall.storyLoading = <<>>
  /\ isUpdatingExperience
  /\ expReqs = 1
  /\ isEnabled
  /\ SomeUnrewarded(tasks)

\* C5: whatever the response to an experience request is (a story, earned_exp
\* 0, no dashboard data held, an error), its callback leaves
\* isUpdatingExperience false and emits storyLoading(false); and every request
\* sent is answered, so that this state is eventually reached.
C5_FlagReset ==
  /\ [][ lastCall'.op \in {"experienceNext", "experienceError"}
         => /\ ~isUpdatingExperience'
            /\ lastCall'.storyLoading = <<FALSE>>
            /\ ~isStoryLoading' ]_vars
  /\ ((expReqs > 0) ~> (expReqs = 0 /\ ~isUpdatingExperience /\ ~isStoryLoading))

\* a response with experience arrived while no dashboard data was held
C5_Witness ==
  /\ lastCall.op = "experienceNext"
  /\ lastCall.arg[1].earned_exp # 0
  /\ dashboard = Null
  /\ ~isUpdatingExperience
  /\ ~isStoryLoading

\* C6: after a response with earned_exp not 0 while dashboard data is held,
\* every task that was COMPLETED without experienced_at has experienced_at set
\* and is otherwise the same, every other task is unchanged, and no COMPLETED
\* task without experienced_at remains.
C6_TasksMarked ==
  [][ (lastCall'.op = "experienceNext" /\ lastCall'.arg[1].earned_exp # 0
         /\ dashboard # Null)
      => /\ Len(tasks') = Len(tasks)
         /\ \A i \in DOMAIN tasks :
              IF Unrewarded(tasks[i])
              THEN /\ tasks'[i].experienced_at # NoDate
                   /\ tasks'[i] = [tasks[i] EXCEPT !.experienced_at = tasks'[i].experienced_at]
              ELSE tasks'[i] = tasks[i]
         /\ ~SomeUnrewarded(tasks')
         /\ dashboard' = Dash(tasks') ]_vars

\* a response marked one task and left a PENDING task without a date alone
C6_Witness ==
  /\ lastCall.op = "experienceNext"
  /\ lastCall.arg[1].earned_exp # 0
  /\ dashboard # Null
  /\ \E i \in DOMAIN tasks : tasks[i].status = COMPLETED /\ tasks[i].experienced_at = <<now>>
  /\ \E i \in DOMAIN tasks : tasks[i].status = PENDING /\ tasks[i].experienced_at = NoDate

C8_Original ==
  [][ /\ (expReqs' > expReqs => SomeUnrewarded(tasks))
      /\ (lastCall'.op = "updateExperience" /\ ~SomeUnrewarded(tasks))
           => (expReqs' = expReqs /\ ~isUpdatingExperience'
               /\ lastCall'.storyLoading = <<>>) ]_vars

\* C8 amended: ... otherwise the call sends nothing, leaves isUpdatingExperience
\* as it was (false, unless an earlier request is still in flight) and emits
\* no storyLoading event.
C8_NoEligibleNoRequest ==
  [][ /\ (expReqs' > expReqs => SomeUnrewarded(tasks))
      /\ (lastCall'.op = "updateExperience" /\ ~SomeUnrewarded(tasks))
           => (UNCHANGED state /\ lastCall'.storyLoading = <<>>
               /\ (expReqs = 0 => ~isUpdatingExperience')) ]_vars

\* updateExperience was called with a COMPLETED task that already has its
\* experience, component enabled and idle, and nothing was sent
C8_Witness ==
  /\ lastCall.op = "updateExperience"
  /\ lastCall.storyLoading = <<>>
  /\ isEnabled
  /\ ~isUpdatingExperience
  /\ expReqs = 0
  /\ ~SomeUnrewarded(tasks)
  /\ \E i \in DOMAIN tasks : tasks[i].status = COMPLETED

\* the other status
Opposite(status) == IF status = PENDING THEN COMPLETED ELSE PENDING

\* C14: toggleTask of an enabled component sends one request, for the id of a
\* listed task and the opposite of its status, and leaves the tasks as they
\* are; the success callback of a request replaces the entry that has the
\* request's id, in place, by the server's task and changes no other entry;
\* the error callback leaves the tasks unchanged.
C14_ToggleTask ==
  [][ /\ (lastCall'.op = "toggleTask"
            => /\ tasks' = tasks
               /\ isEnabled
                    => /\ Len(toggleReqs') = Len(toggleReqs) + 1
                       /\ SubSeq(toggleReqs', 1, Len(toggleReqs)) = toggleReqs
                       /\ LET r == toggleReqs'[Len(toggleReqs')] IN
                          \E i \in DOMAIN tasks :
                             r.id = tasks[i].id /\ r.status = Opposite(tasks[i].status)
               /\ ~isEnabled => toggleReqs' = toggleReqs)
      /\ (lastCall'.op = "toggleNext"
            => \E k \in DOMAIN toggleReqs :
                 /\ toggleReqs' = Remove(toggleReqs, k)
                 /\ LET r == toggleReqs[k] IN
                    /\ Len(tasks') = Len(tasks)
                    /\ \A i \in DOMAIN tasks :
                         tasks'[i] = IF tasks[i].id = r.id
                                     THEN Task(r.id, r.title, r.status, r.experienced_at)
                                     ELSE tasks[i])
      /\ (lastCall'.op = "toggleError" => tasks' = tasks) ]_vars

\* the answer to a toggle of the first of two tasks made it COMPLETED where it was
C14_Witness ==
  /\ lastCall.op = "toggleNext"
  /\ Len(tasks) = 2
  /\ tasks[1].id = <<"init", 0>>
  /\ tasks[1].status = COMPLETED
  /\ tasks[2].id = <<"init", 1>>
  /\ tasks[2].experienced_at = NoDate

\* ------------------------------------------------------ properties of StorySpec
\* C9: no image load makes more than MAX_LOADING_STEPS retries, whatever other
\* loads (of other seasons or of the same season) are active.
C9_RetryBound ==
  \A k \in DOMAIN loads : loads[k].retries <= MAX_LOADING_STEPS

\* no request in flight, no retry timer pending
Quiescent ==
  /\ storyReqs = <<>>
  /\ \A k \in DOMAIN loads : loads[k].state \notin {"request", "timer"}

UrlSet(s) ==
  /\ KanStory(seasons[s]) # 0
  /\ seasons[s].stories[KanStory(seasons[s])].imageUrl # <<>>

\* C10: once nothing is in flight and no timer is pending, an image load that
\* no user selection followed has ended with the image URL set on the
\* KAN-phase story of its season or at the retry limit.
C10_RetryTerminates ==
  Quiescent =>
    \A k \in DOMAIN loads :
      ~loads[k].reselected => (UrlSet(loads[k].season) \/ loads[k].state = "gaveUp")

\* ------------------------------------------------------ properties of ViewSpec
\* the season an id names, if the id is set and some season has it
Named(id) ==
  IF id # <<>> /\ \E i \in DOMAIN seasons : seasons[i].id = id[1] THEN id ELSE <<>>

\* the first season that is not completed
InProgress ==
  IF \E i \in DOMAIN seasons : seasons[i].current_phase # KAN
  THEN <<seasons[CHOOSE i \in DOMAIN seasons :
                   seasons[i].current_phase # KAN
                   /\ \A j \in DOMAIN seasons : j < i => seasons[j].current_phase = KAN].id>>
  ELSE <<>>

\* C11: currentSeason is the season selectedSeasonId names, else the season
\* selectedStorySeasonId names, else selectedSeason, else the first season in
\* progress; an id that names no season is skipped.
C11_DocumentedPriority ==
  lastCall.op = "currentSeason" =>
    lastCall.arg = IF Named(selectedSeasonId) # <<>> THEN Named(selectedSeasonId)
                   ELSE IF Named(selectedStorySeasonId) # <<>> THEN Named(selectedStorySeasonId)
                   ELSE IF selectedSeason # Null THEN selectedSeason
                   ELSE InProgress

\* ------------------------------------------------------ properties of DisplaySpec
Elements(seq) == { seq[i] : i \in DOMAIN seq }

\* C12: displayTasks returns exactly the PENDING tasks without showAllTasks and
\* exactly all tasks with it, PENDING before COMPLETED and, within one status,
\* the later created_at first.
C12_DisplayTasks ==
  [][ lastCall'.op = "displayTasks"
      => LET shown == lastCall'.arg
             wanted == IF showAllTasks
                       THEN Elements(tasks)
                       ELSE { t \in Elements(tasks) : t.status = PENDING } IN
         /\ Elements(shown) = wanted
         /\ Len(shown) = Cardinality(wanted)
         /\ \A i, j \in DOMAIN shown :
              i < j => /\ shown[i].status <= shown[j].status
                       /\ (shown[i].status = shown[j].status
                             => shown[i].created_at >= shown[j].created_at) ]_vars

\* all tasks were shown: two PENDING tasks of different age before a COMPLETED one
C12_Witness ==
  /\ lastCall.op = "displayTasks"
  /\ showAllTasks
  /\ Len(lastCall.arg) = 3
  /\ lastCall.arg[1].status = PENDING
  /\ lastCall.arg[2].status = PENDING
  /\ lastCall.arg[1].created_at > lastCall.arg[2].created_at
  /\ lastCall.arg[1].id[2] > lastCall.arg[2].id[2]
  /\ lastCall.arg[3].status = COMPLETED

\* ------------------------------------------------------ properties of DeleteSpec
\* C13: the tasks change only when a delete request succeeds; then exactly the
\* task of that request is removed, from the dashboard data too, and the
\* dialog is closed; when the request fails the tasks are unchanged and the
\* dialog stays as it was.
C13_DeleteConfirmed ==
  [][ /\ (tasks' # tasks => lastCall'.op = "deleteNext")
      /\ (lastCall'.op = "deleteNext"
            => /\ tasks' = FilterOutId(tasks, lastCall'.arg[1])
               /\ (dashboard' # Null => dashboard'[1].tasks = tasks')
               /\ ~showDeleteConfirm'
               /\ taskToDelete' = Null)
      /\ (lastCall'.op = "deleteError"
            => /\ tasks' = tasks
               /\ showDeleteConfirm' = showDeleteConfirm) ]_vars

====
